---- MODULE Spec2Model ----
(***************************************************************************)
(* Model of the RTIC application in src/main.rs: two blink tasks (foo,     *)
(* bar), the keypad scan (key_listener) and the emergency stop handler     *)
(* (emergency_stop) on one Cortex-M core, together with the parts of the   *)
(* RTIC runtime the application attributes select: priority based          *)
(* preemption, the priority-ceiling lock on the shared LEDs, the           *)
(* capacity-1 spawn queues and the SysTick timer queue.                    *)
(*                                                                         *)
(* One CPU step is one action.  A step of a context is enabled only when   *)
(* no pending interrupt of a higher priority than the current effective    *)
(* priority exists (the NVIC takes it at the instruction boundary).        *)
(* idle() has no action: both dispatchers are pending when init returns    *)
(* and key_listener never returns, so thread mode never runs again.        *)
(***************************************************************************)
EXTENDS Integers, Sequences, FiniteSets, TLC

\* ---------------------------------------------------------------- bounds
\* ticks of the monotonic timer the model follows
MaxTick == 102
\* CPU steps that fit at least between two timer ticks.  At 16 MHz a tick of
\* 10 ms is 160,000 cycles; this is the scaled-down lower bound, long enough
\* for one run of foo, bar or emergency_stop to fit between two ticks
MinStepsPerTick == 12
\* ticks the model follows after the first edge of the emergency button
MaxSince == 2
\* falling edges of the (undebounced) button the model follows
MaxEdges == 2
\* ticks the model follows when the button is never pressed
MaxTickQuiet == 305

\* ------------------------------------------------------ program constants
\* #[task(... priority = 3)] fn foo
PrioFoo == 3
\* #[task(... priority = 3)] fn bar
PrioBar == 3
\* variant: key_listener is given a priority above the blink tasks
PrioKeyHigh == PrioFoo + 1

\* #[task(priority=1 ...)] fn key_listener
PrioKey == 1
\* #[monotonic(binds = SysTick, default = true)]: no priority argument, so
\* the timer-queue handler runs at the highest priority of the device
PrioMono == 16
\* ExtU32::secs(1) on Systick<100>: 100 ticks of 10 ms
Delay == 100
\* key_columns: [..; 4], key_rows: [..; 4]
NumCols == 4
NumRows == 4

VARIABLES
    led_red,      \* shared output pb12 (TRUE = high)
    led_blue,     \* shared output pb14
    led_green,    \* local output pb13 of emergency_stop
    counter,      \* local counter of foo
    cols,         \* keypad column outputs pa0..pa3
    cnt,          \* tick count kept by the Systick monotonic
    wrapped,      \* SysTick COUNTFLAG: the counter wrapped since last read
    pend,         \* pending interrupts: subset of IRQs
    extiPR,       \* EXTI pending bit of the button line
    pcE,          \* position of emergency_stop
    task3,        \* task the priority-3 dispatcher is running
    pc3,          \* position of the priority-3 dispatcher / foo / bar
    arg3,         \* the counter argument of the running bar
    pcK,          \* position of the priority-1 dispatcher / key_listener
    fq,           \* tasks whose (single) spawn slot is free
    rq3,          \* ready queue of priority 3: sequence of [task, arg]
    rq1,          \* ready queue of priority 1
    tq,           \* timer queue: set of [instant, task, arg]
    cyc,          \* CPU steps since the last tick (saturating)
    \* ---- observation (history) variables; only edges and sinceTrig are
    \* read by a guard, to bound the environment
    edges,        \* falling edges of the button so far
    sinceTrig,    \* ticks since the first edge (saturating at MaxSince)
    trigPc,       \* <<task3, pc3>> at the first edge
    greenToggles, \* number of toggles of led_green
    log,          \* started blink runs: sequence of [task, at, arg]
    done,         \* completed runs of foo and of bar
    spawns,       \* now() at each successful spawn_after call, in order
    lastSample,   \* the last row sample of key_listener
    preemptK,     \* pcK when the blink dispatcher last preempted this column
    last          \* the context that executed the last step

vars == << led_red, led_blue, led_green, counter, cols, cnt, wrapped, pend,
           extiPR, pcE, task3, pc3, arg3, pcK, fq, rq3, rq1, tq, cyc,
           edges, sinceTrig, trigPc, greenToggles, log, done, spawns, lastSample,
           preemptK, last >>

hist == << edges, sinceTrig, trigPc, greenToggles, log, done, spawns, lastSample,
          preemptK >>

InClosure == {"r_in", "r_out", "b_in", "b_out"}

NoSample == [i |-> 0 - 1, j |-> 0 - 1, level |-> FALSE, reported |-> FALSE,
             high |-> {}]

KOff == [s |-> "off", i |-> 0, j |-> 0]

Max(a, b) == IF a >= b THEN a ELSE b

\* variant: the handler registered at the priority of the blink tasks
PrioEmergencyLow == PrioFoo

\* #[task(binds=EXTI0 ... priority = 6)] fn emergency_stop
PrioEmergency == 6

\* variant: the lock raises the priority to the blink tasks' own level only
CeilingLow == Max(PrioFoo, PrioBar)

\* ------------------------------------------------------------- priorities
\* ceiling of led_red / led_blue: the highest priority among the tasks that
\* name them in shared = [...] (foo, bar, emergency_stop)
Ceiling == Max(Max(PrioFoo, PrioBar), PrioEmergency)

Prio(irq) ==
    CASE irq = "SysTick" -> PrioMono
      [] irq = "EXTI0"   -> PrioEmergency
      [] irq = "D3"      -> PrioFoo
      [] irq = "D1"      -> PrioKey

\* the current execution priority: the active handler of highest priority,
\* raised to the ceiling while foo or bar is inside a lock closure
CurPrio ==
    IF pcE # "off" THEN PrioEmergency
    ELSE IF pc3 \in InClosure THEN Max(PrioFoo, Ceiling)
    ELSE IF pc3 # "off" THEN PrioFoo
    ELSE IF pcK.s # "off" THEN PrioKey
    ELSE 0

\* the pending interrupt the core takes next, if any
Takeable(irq) ==
    /\ irq \in pend
    /\ Prio(irq) > CurPrio
    /\ \A o \in pend : Prio(o) <= Prio(irq)

CanTake == \E irq \in pend : Prio(irq) > CurPrio

\* the monotonic's now(): a wrap not yet counted is counted by the read
Now == IF wrapped THEN cnt + 1 ELSE cnt

Cycle == cyc' = IF cyc < MinStepsPerTick THEN cyc + 1 ELSE cyc

\* --------------------------------------------------------------- Init
\* the state when init() has returned: foo and key_listener spawned,
\* interrupts about to be enabled
Init ==
    /\ led_red = FALSE
    /\ led_blue = TRUE
    /\ led_green = FALSE
    /\ counter = 0
    /\ cols = [c \in 0 .. NumCols - 1 |-> FALSE]
    /\ cnt = 0
    /\ wrapped = FALSE
    /\ pend = {"D3", "D1"}
    /\ extiPR = FALSE
    /\ pcE = "off"
    /\ task3 = "none"
    /\ pc3 = "off"
    /\ arg3 = 0
    /\ pcK = KOff
    /\ fq = {"bar"}
    /\ rq3 = << [task |-> "foo", arg |-> 0] >>
    /\ rq1 = << "key_listener" >>
    /\ tq = {}
    /\ cyc = 0
    /\ edges = 0
    /\ sinceTrig = 0
    /\ trigPc = << "none", "none" >>
    /\ greenToggles = 0
    /\ log = << >>
    /\ done = [foo |-> 0, bar |-> 0]
    /\ spawns = << >>
    /\ lastSample = NoSample
    /\ preemptK = KOff
    /\ last = "init"

\* ------------------------------------------------------------ environment
\* the SysTick counter wraps: one tick of 10 ms has passed
Tick(limit) ==
    /\ cyc >= MinStepsPerTick
    /\ Now < limit
    /\ edges > 0 => sinceTrig < MaxSince
    /\ wrapped' = TRUE
    /\ pend' = pend \cup {"SysTick"}
    /\ cyc' = 0
    /\ sinceTrig' = IF edges > 0 THEN sinceTrig + 1 ELSE sinceTrig
    /\ last' = "tick"
    /\ UNCHANGED << led_red, led_blue, led_green, counter, cols, cnt, extiPR,
                    pcE, task3, pc3, arg3, pcK, fq, rq3, rq1, tq, edges,
                    trigPc, greenToggles, log, done, spawns, lastSample, preemptK >>

\* a falling edge on the emergency button: EXTI line 0 becomes pending
ButtonEdge ==
    /\ edges < MaxEdges
    /\ edges' = edges + 1
    /\ extiPR' = TRUE
    /\ pend' = pend \cup {"EXTI0"}
    /\ trigPc' = IF edges = 0 THEN << task3, pc3 >> ELSE trigPc
    /\ last' = "button"
    /\ UNCHANGED << led_red, led_blue, led_green, counter, cols, cnt, wrapped,
                    pcE, task3, pc3, arg3, pcK, fq, rq3, rq1, tq, cyc,
                    sinceTrig, greenToggles, log, done, spawns, lastSample, preemptK >>

\* ------------------------------------------------------- emergency_stop
\* variant: a pending EXTI0 enters the handler even while it is active
EmergencyEnterNested ==
    /\ "EXTI0" \in pend
    /\ ~Takeable("SysTick")
    /\ pcE \in {"off", "halt"}
    /\ pcE = "off" => Takeable("EXTI0")
    /\ pend' = pend \ {"EXTI0"}
    /\ pcE' = "green"
    /\ Cycle
    /\ last' = "emergency_stop"
    /\ UNCHANGED << led_red, led_blue, led_green, counter, cols, cnt, wrapped,
                    extiPR, task3, pc3, arg3, pcK, fq, rq3, rq1, tq >>
    /\ UNCHANGED hist

\* exception entry of EXTI0 followed by the handler body, one step each
EmergencyEnter ==
    /\ Takeable("EXTI0")
    /\ pcE = "off"
    /\ pend' = pend \ {"EXTI0"}
    /\ pcE' = "green"
    /\ Cycle
    /\ last' = "emergency_stop"
    /\ UNCHANGED << led_red, led_blue, led_green, counter, cols, cnt, wrapped,
                    extiPR, task3, pc3, arg3, pcK, fq, rq3, rq1, tq >>
    /\ UNCHANGED hist

\* a step of emergency_stop is preempted only by the timer-queue handler
RunsE == pcE # "off" /\ ~CanTake

\* ctx.local.led_green.toggle()
EmergencyGreen ==
    /\ RunsE
    /\ pcE = "green"
    /\ led_green' = ~led_green
    /\ greenToggles' = greenToggles + 1
    /\ pcE' = "blue"
    /\ Cycle
    /\ last' = "emergency_stop"
    /\ UNCHANGED << led_red, led_blue, counter, cols, cnt, wrapped, pend,
                    extiPR, task3, pc3, arg3, pcK, fq, rq3, rq1, tq, edges,
                    sinceTrig, trigPc, log, done, spawns, lastSample, preemptK >>

\* variant: the handler leaves led_blue as it is
EmergencyBlueSkip ==
    /\ RunsE
    /\ pcE = "blue"
    /\ pcE' = "red"
    /\ Cycle
    /\ last' = "emergency_stop"
    /\ UNCHANGED << led_red, led_blue, led_green, counter, cols, cnt, wrapped,
                    pend, extiPR, task3, pc3, arg3, pcK, fq, rq3, rq1, tq >>
    /\ UNCHANGED hist

\* ctx.shared.led_blue.lock(|led| led.set_low()): at the ceiling priority
\* the lock is the plain access
EmergencyBlue ==
    /\ RunsE
    /\ pcE = "blue"
    /\ led_blue' = FALSE
    /\ pcE' = "red"
    /\ Cycle
    /\ last' = "emergency_stop"
    /\ UNCHANGED << led_red, led_green, counter, cols, cnt, wrapped, pend,
                    extiPR, task3, pc3, arg3, pcK, fq, rq3, rq1, tq >>
    /\ UNCHANGED hist

\* variant: the handler leaves led_red as it is
EmergencyRedSkip ==
    /\ RunsE
    /\ pcE = "red"
    /\ pcE' = "clear"
    /\ Cycle
    /\ last' = "emergency_stop"
    /\ UNCHANGED << led_red, led_blue, led_green, counter, cols, cnt, wrapped,
                    pend, extiPR, task3, pc3, arg3, pcK, fq, rq3, rq1, tq >>
    /\ UNCHANGED hist

\* ctx.shared.led_red.lock(|led| led.set_low())
EmergencyRed ==
    /\ RunsE
    /\ pcE = "red"
    /\ led_red' = FALSE
    /\ pcE' = "clear"
    /\ Cycle
    /\ last' = "emergency_stop"
    /\ UNCHANGED << led_blue, led_green, counter, cols, cnt, wrapped, pend,
                    extiPR, task3, pc3, arg3, pcK, fq, rq3, rq1, tq >>
    /\ UNCHANGED hist

\* ctx.local.emergency_button.clear_interrupt_pending_bit()
EmergencyClear ==
    /\ RunsE
    /\ pcE = "clear"
    /\ extiPR' = FALSE
    /\ pcE' = "halt"
    /\ Cycle
    /\ last' = "emergency_stop"
    /\ UNCHANGED << led_red, led_blue, led_green, counter, cols, cnt, wrapped,
                    pend, task3, pc3, arg3, pcK, fq, rq3, rq1, tq >>
    /\ UNCHANGED hist

\* variant: the handler returns instead of looping
EmergencyReturn ==
    /\ RunsE
    /\ pcE = "halt"
    /\ pcE' = "off"
    /\ Cycle
    /\ last' = "emergency_stop"
    /\ UNCHANGED << led_red, led_blue, led_green, counter, cols, cnt, wrapped,
                    pend, extiPR, task3, pc3, arg3, pcK, fq, rq3, rq1, tq >>
    /\ UNCHANGED hist

\* loop { rtic::export::nop(); }
EmergencyHalt ==
    /\ RunsE
    /\ pcE = "halt"
    /\ Cycle
    /\ last' = "emergency_stop"
    /\ UNCHANGED << led_red, led_blue, led_green, counter, cols, cnt, wrapped,
                    pend, extiPR, pcE, task3, pc3, arg3, pcK, fq, rq3, rq1,
                    tq >>
    /\ UNCHANGED hist

\* ------------------------------------------------------ timer-queue handler
\* variant: the handler releases the entries that fall due at the next tick
ReleaseEarly(q, r, now) ==
    LET due == {e \in q : e.instant <= now + 1}
    IN  IF due = {} THEN << q, r >>
        ELSE LET e == CHOOSE x \in due : \A y \in due : x.instant <= y.instant
             IN  << q \ {e}, Append(r, [task |-> e.task, arg |-> e.arg]) >>

RECURSIVE Release(_, _, _)
\* TimerQueue::dequeue in a loop: pop every entry whose instant has been
\* reached, earliest first, into the ready queue
Release(q, r, now) ==
    LET due == {e \in q : e.instant <= now}
    IN  IF due = {} THEN << q, r >>
        ELSE LET e == CHOOSE x \in due : \A y \in due : x.instant <= y.instant
             IN  Release(q \ {e}, Append(r, [task |-> e.task, arg |-> e.arg]),
                         now)

\* the SysTick handler RTIC generates for the monotonic: moves the due
\* entries to the ready queue, pends their dispatcher, counts the tick
SysTickHandler ==
    /\ Takeable("SysTick")
    /\ LET res == Release(tq, rq3, Now)
       IN  /\ tq' = res[1]
           /\ rq3' = res[2]
           /\ pend' = (pend \ {"SysTick"})
                        \cup (IF res[1] # tq THEN {"D3"} ELSE {})
    /\ cnt' = Now
    /\ wrapped' = FALSE
    /\ Cycle
    /\ last' = "systick"
    /\ UNCHANGED << led_red, led_blue, led_green, counter, cols, extiPR, pcE,
                    task3, pc3, arg3, pcK, fq, rq1 >>
    /\ UNCHANGED hist

\* ------------------------------------------- priority-3 dispatcher, foo, bar
D3Enter ==
    /\ Takeable("D3")
    /\ pc3 = "off"
    /\ pend' = pend \ {"D3"}
    /\ pc3' = "disp"
    /\ preemptK' = pcK
    /\ Cycle
    /\ last' = "dispatcher3"
    /\ UNCHANGED << led_red, led_blue, led_green, counter, cols, cnt, wrapped,
                    extiPR, pcE, task3, arg3, pcK, fq, rq3, rq1, tq, edges,
                    sinceTrig, trigPc, greenToggles, log, done, spawns, lastSample >>

Runs3 == pcE = "off" /\ pc3 # "off" /\ ~CanTake

\* variant: the dispatcher does not return the slot to the free queue
D3DispatchKeepSlot ==
    /\ Runs3
    /\ pc3 = "disp"
    /\ rq3 # << >>
    /\ LET e == Head(rq3)
       IN  /\ task3' = e.task
           /\ arg3' = e.arg
           /\ log' = Append(log, [task |-> e.task, at |-> Now, arg |-> e.arg])
    /\ rq3' = Tail(rq3)
    /\ pc3' = "r_lock"
    /\ Cycle
    /\ last' = "dispatcher3"
    /\ UNCHANGED << led_red, led_blue, led_green, counter, cols, cnt, wrapped,
                    pend, extiPR, pcE, pcK, fq, rq1, tq, edges, sinceTrig,
                    trigPc, greenToggles, done, spawns, lastSample, preemptK >>

\* the dispatcher pops the ready queue, returns the slot to the free queue
\* and calls the task (rprintln of the task included)
D3Dispatch ==
    /\ Runs3
    /\ pc3 = "disp"
    /\ rq3 # << >>
    /\ LET e == Head(rq3)
       IN  /\ task3' = e.task
           /\ arg3' = e.arg
           /\ fq' = fq \cup {e.task}
           /\ log' = Append(log, [task |-> e.task, at |-> Now, arg |-> e.arg])
    /\ rq3' = Tail(rq3)
    /\ pc3' = "r_lock"
    /\ Cycle
    /\ last' = "dispatcher3"
    /\ UNCHANGED << led_red, led_blue, led_green, counter, cols, cnt, wrapped,
                    pend, extiPR, pcE, pcK, rq1, tq, edges, sinceTrig, trigPc,
                    greenToggles, done, spawns, lastSample, preemptK >>

\* the ready queue is empty: the dispatcher interrupt returns
D3Return ==
    /\ Runs3
    /\ pc3 = "disp"
    /\ rq3 = << >>
    /\ pc3' = "off"
    /\ Cycle
    /\ last' = "dispatcher3"
    /\ UNCHANGED << led_red, led_blue, led_green, counter, cols, cnt, wrapped,
                    pend, extiPR, pcE, task3, arg3, pcK, fq, rq3, rq1, tq >>
    /\ UNCHANGED hist

\* led.lock(..) entered: the priority is raised to the ceiling of the LED
LockAcquire ==
    /\ Runs3
    /\ pc3 \in {"r_lock", "b_lock"}
    /\ pc3' = IF pc3 = "r_lock" THEN "r_in" ELSE "b_in"
    /\ Cycle
    /\ last' = task3
    /\ UNCHANGED << led_red, led_blue, led_green, counter, cols, cnt, wrapped,
                    pend, extiPR, pcE, task3, arg3, pcK, fq, rq3, rq1, tq >>
    /\ UNCHANGED hist

\* variant: the closure sets the LED high instead of toggling it
LockedSetHigh ==
    /\ Runs3
    /\ pc3 \in {"r_in", "b_in"}
    /\ led_red' = IF pc3 = "r_in" THEN TRUE ELSE led_red
    /\ led_blue' = IF pc3 = "b_in" THEN TRUE ELSE led_blue
    /\ pc3' = IF pc3 = "r_in" THEN "r_out" ELSE "b_out"
    /\ Cycle
    /\ last' = task3
    /\ UNCHANGED << led_green, counter, cols, cnt, wrapped, pend, extiPR, pcE,
                    task3, arg3, pcK, fq, rq3, rq1, tq >>
    /\ UNCHANGED hist

\* variant: only the led_red closure toggles its LED
LockedToggleRedOnly ==
    /\ Runs3
    /\ pc3 \in {"r_in", "b_in"}
    /\ led_red' = IF pc3 = "r_in" THEN ~led_red ELSE led_red
    /\ led_blue' = led_blue
    /\ pc3' = IF pc3 = "r_in" THEN "r_out" ELSE "b_out"
    /\ Cycle
    /\ last' = task3
    /\ UNCHANGED << led_green, counter, cols, cnt, wrapped, pend, extiPR, pcE,
                    task3, arg3, pcK, fq, rq3, rq1, tq >>
    /\ UNCHANGED hist

\* |led| led.toggle() inside the closure
LockedToggle ==
    /\ Runs3
    /\ pc3 \in {"r_in", "b_in"}
    /\ led_red' = IF pc3 = "r_in" THEN ~led_red ELSE led_red
    /\ led_blue' = IF pc3 = "b_in" THEN ~led_blue ELSE led_blue
    /\ pc3' = IF pc3 = "r_in" THEN "r_out" ELSE "b_out"
    /\ Cycle
    /\ last' = task3
    /\ UNCHANGED << led_green, counter, cols, cnt, wrapped, pend, extiPR, pcE,
                    task3, arg3, pcK, fq, rq3, rq1, tq >>
    /\ UNCHANGED hist

\* the closure returns: the priority is restored
LockRelease ==
    /\ Runs3
    /\ pc3 \in {"r_out", "b_out"}
    /\ pc3' = IF pc3 = "r_out" THEN "b_lock"
              ELSE IF task3 = "foo" THEN "inc" ELSE "spawn"
    /\ Cycle
    /\ last' = task3
    /\ UNCHANGED << led_red, led_blue, led_green, counter, cols, cnt, wrapped,
                    pend, extiPR, pcE, task3, arg3, pcK, fq, rq3, rq1, tq >>
    /\ UNCHANGED hist

\* variant: the counter advances by two
FooIncrementTwo ==
    /\ Runs3
    /\ task3 = "foo"
    /\ pc3 = "inc"
    /\ counter' = counter + 2
    /\ pc3' = "spawn"
    /\ Cycle
    /\ last' = task3
    /\ UNCHANGED << led_red, led_blue, led_green, cols, cnt, wrapped, pend,
                    extiPR, pcE, task3, arg3, pcK, fq, rq3, rq1, tq >>
    /\ UNCHANGED hist

\* *ctx.local.counter += 1
FooIncrement ==
    /\ Runs3
    /\ task3 = "foo"
    /\ pc3 = "inc"
    /\ counter' = counter + 1
    /\ pc3' = "spawn"
    /\ Cycle
    /\ last' = task3
    /\ UNCHANGED << led_red, led_blue, led_green, cols, cnt, wrapped, pend,
                    extiPR, pcE, task3, arg3, pcK, fq, rq3, rq1, tq >>
    /\ UNCHANGED hist

\* variant: the delay is one tick short
EntryShort(t, a) == [instant |-> Now + Delay - 1, task |-> t, arg |-> a]

\* the entry a spawn_after call puts in the timer queue
Entry(t, a) == [instant |-> Now + Delay, task |-> t, arg |-> a]

\* X::spawn_after(1 s, a).unwrap(), then the task returns to the dispatcher.
\* Ok when the slot of X is free: the slot is taken, the entry queued and
\* SysTick pended when the entry is the new head.  Err otherwise: unwrap
\* panics and panic_halt spins.
SpawnAfter(t, a) ==
    /\ cnt' = Now
    /\ wrapped' = FALSE
    /\ IF t \in fq
       THEN /\ fq' = fq \ {t}
            /\ tq' = tq \cup {Entry(t, a)}
            /\ pend' = IF \A e \in tq : Now + Delay < e.instant
                       THEN pend \cup {"SysTick"} ELSE pend
            /\ pc3' = "disp"
            /\ done' = [done EXCEPT ![task3] = @ + 1]
            /\ spawns' = Append(spawns, Now)
       ELSE /\ pc3' = "panic"
            /\ UNCHANGED << fq, tq, pend, done, spawns >>

\* variant: foo passes the counter value it held before the increment
FooSpawnBarStale ==
    /\ Runs3
    /\ task3 = "foo"
    /\ pc3 = "spawn"
    /\ SpawnAfter("bar", counter - 1)
    /\ Cycle
    /\ last' = task3
    /\ UNCHANGED << led_red, led_blue, led_green, counter, cols, extiPR, pcE,
                    task3, arg3, pcK, rq3, rq1, edges, sinceTrig, trigPc,
                    greenToggles, log, lastSample, preemptK >>

\* bar::spawn_after(ExtU32::secs(1).into(), *ctx.local.counter).unwrap()
FooSpawnBar ==
    /\ Runs3
    /\ task3 = "foo"
    /\ pc3 = "spawn"
    /\ SpawnAfter("bar", counter)
    /\ Cycle
    /\ last' = task3
    /\ UNCHANGED << led_red, led_blue, led_green, counter, cols, extiPR, pcE,
                    task3, arg3, pcK, rq3, rq1, edges, sinceTrig, trigPc,
                    greenToggles, log, lastSample, preemptK >>

\* variant: bar schedules itself again instead of foo
BarSpawnBar ==
    /\ Runs3
    /\ task3 = "bar"
    /\ pc3 = "spawn"
    /\ SpawnAfter("bar", counter)
    /\ Cycle
    /\ last' = task3
    /\ UNCHANGED << led_red, led_blue, led_green, counter, cols, extiPR, pcE,
                    task3, arg3, pcK, rq3, rq1, edges, sinceTrig, trigPc,
                    greenToggles, log, lastSample, preemptK >>

\* variant: bar also advances the counter when it schedules foo
BarSpawnFooCounting ==
    /\ Runs3
    /\ task3 = "bar"
    /\ pc3 = "spawn"
    /\ SpawnAfter("foo", 0)
    /\ counter' = counter + 1
    /\ Cycle
    /\ last' = task3
    /\ UNCHANGED << led_red, led_blue, led_green, cols, extiPR, pcE,
                    task3, arg3, pcK, rq3, rq1, edges, sinceTrig, trigPc,
                    greenToggles, log, lastSample, preemptK >>

\* foo::spawn_after(ExtU32::secs(1).into()).unwrap()
BarSpawnFoo ==
    /\ Runs3
    /\ task3 = "bar"
    /\ pc3 = "spawn"
    /\ SpawnAfter("foo", 0)
    /\ Cycle
    /\ last' = task3
    /\ UNCHANGED << led_red, led_blue, led_green, counter, cols, extiPR, pcE,
                    task3, arg3, pcK, rq3, rq1, edges, sinceTrig, trigPc,
                    greenToggles, log, lastSample, preemptK >>

\* ------------------------------------- priority-1 dispatcher, key_listener
D1Enter ==
    /\ Takeable("D1")
    /\ pcK.s = "off"
    /\ pend' = pend \ {"D1"}
    /\ pcK' = [pcK EXCEPT !.s = "disp"]
    /\ Cycle
    /\ last' = "dispatcher1"
    /\ UNCHANGED << led_red, led_blue, led_green, counter, cols, cnt, wrapped,
                    extiPR, pcE, task3, pc3, arg3, fq, rq3, rq1, tq >>
    /\ UNCHANGED hist

\* variant: key_listener keeps executing while foo or bar is active
RunsKAlways == pcE = "off" /\ pcK.s # "off" /\ ~CanTake

RunsK == pcE = "off" /\ pc3 = "off" /\ pcK.s # "off" /\ ~CanTake

\* the dispatcher calls key_listener, which never returns
D1Dispatch ==
    /\ RunsK
    /\ pcK.s = "disp"
    /\ rq1 # << >>
    /\ rq1' = Tail(rq1)
    /\ fq' = fq \cup {Head(rq1)}
    /\ pcK' = [s |-> "set_high", i |-> 0, j |-> 0]
    /\ Cycle
    /\ last' = "dispatcher1"
    /\ UNCHANGED << led_red, led_blue, led_green, counter, cols, cnt, wrapped,
                    pend, extiPR, pcE, task3, pc3, arg3, rq3, tq >>
    /\ UNCHANGED hist

\* variant: the scan drives the column after the one it samples
KeySetHighWrong ==
    /\ RunsK
    /\ pcK.s = "set_high"
    /\ cols' = [cols EXCEPT ![(pcK.i + 1) % NumCols] = TRUE]
    /\ pcK' = [pcK EXCEPT !.s = "sample", !.j = 0]
    /\ Cycle
    /\ last' = "key_listener"
    /\ UNCHANGED << led_red, led_blue, led_green, counter, cnt, wrapped, pend,
                    extiPR, pcE, task3, pc3, arg3, fq, rq3, rq1, tq >>
    /\ UNCHANGED hist

\* ctx.local.key_columns[i].set_high()
KeySetHigh ==
    /\ RunsK
    /\ pcK.s = "set_high"
    /\ cols' = [cols EXCEPT ![pcK.i] = TRUE]
    /\ pcK' = [pcK EXCEPT !.s = "sample", !.j = 0]
    /\ Cycle
    /\ last' = "key_listener"
    /\ UNCHANGED << led_red, led_blue, led_green, counter, cnt, wrapped, pend,
                    extiPR, pcE, task3, pc3, arg3, fq, rq3, rq1, tq >>
    /\ UNCHANGED hist

\* if ctx.local.key_rows[j].is_high() { rprintln!(..i, j) }
Reported(level) == level

\* one iteration of the row loop; the level of the row input is the
\* environment's
KeySample ==
    /\ RunsK
    /\ pcK.s = "sample"
    /\ \E level \in BOOLEAN :
          lastSample' = [i |-> pcK.i, j |-> pcK.j, level |-> level,
                         reported |-> Reported(level),
                         high |-> {c \in DOMAIN cols : cols[c]}]
    /\ pcK' = IF pcK.j + 1 < NumRows THEN [pcK EXCEPT !.j = @ + 1]
              ELSE [pcK EXCEPT !.s = "set_low"]
    /\ Cycle
    /\ last' = "key_listener"
    /\ UNCHANGED << led_red, led_blue, led_green, counter, cols, cnt, wrapped,
                    pend, extiPR, pcE, task3, pc3, arg3, fq, rq3, rq1, tq,
                    edges, sinceTrig, trigPc, greenToggles, log, done, spawns,
                    preemptK >>

\* variant: the column is left high when the scan moves on
KeySetLowSkip ==
    /\ RunsK
    /\ pcK.s = "set_low"
    /\ pcK' = [s |-> "set_high", i |-> (pcK.i + 1) % NumCols, j |-> 0]
    /\ lastSample' = NoSample
    /\ preemptK' = KOff
    /\ Cycle
    /\ last' = "key_listener"
    /\ UNCHANGED << led_red, led_blue, led_green, counter, cols, cnt, wrapped,
                    pend, extiPR, pcE, task3, pc3, arg3, fq, rq3, rq1, tq,
                    edges, sinceTrig, trigPc, greenToggles, log, done, spawns >>

\* ctx.local.key_columns[i].set_low(), then the next column (or next pass)
KeySetLow ==
    /\ RunsK
    /\ pcK.s = "set_low"
    /\ cols' = [cols EXCEPT ![pcK.i] = FALSE]
    /\ pcK' = [s |-> "set_high", i |-> (pcK.i + 1) % NumCols, j |-> 0]
    /\ lastSample' = NoSample
    /\ preemptK' = KOff
    /\ Cycle
    /\ last' = "key_listener"
    /\ UNCHANGED << led_red, led_blue, led_green, counter, cnt, wrapped, pend,
                    extiPR, pcE, task3, pc3, arg3, fq, rq3, rq1, tq, edges,
                    sinceTrig, trigPc, greenToggles, log, done, spawns >>

\* ------------------------------------------------------------ specification
Cpu ==
    \/ SysTickHandler
    \/ D3Enter \/ D3Dispatch \/ D3Return
    \/ LockAcquire \/ LockedToggle \/ LockRelease
    \/ FooIncrement \/ FooSpawnBar \/ BarSpawnFoo
    \/ D1Enter \/ D1Dispatch
    \/ KeySetHigh \/ KeySample \/ KeySetLow

Emergency ==
    \/ EmergencyEnter \/ EmergencyGreen \/ EmergencyBlue \/ EmergencyRed
    \/ EmergencyClear \/ EmergencyHalt

Next == Tick(MaxTick) \/ ButtonEdge \/ Cpu \/ Emergency

Spec == Init /\ [][Next]_vars

\* the system whose emergency button is never pressed, over three seconds
NextQuiet == Tick(MaxTickQuiet) \/ Cpu

SpecQuiet == Init /\ [][NextQuiet]_vars

\* the same system when the processor keeps executing instructions and the
\* SysTick counter keeps counting
SpecQuietFair ==
    SpecQuiet /\ WF_vars(Tick(MaxTickQuiet)) /\ WF_vars(Cpu)

\* ======================================================================
\* Claims
\* ======================================================================
Mid == {"r_out", "b_lock", "b_in"}

\* the position at which foo / bar continues after the closure it is in
AfterClosure(t, pc) ==
    IF pc \in {"r_in", "r_out"} THEN "b_lock"
    ELSE IF t = "foo" THEN "inc" ELSE "spawn"

\* the last position inside the closure pc is in
ClosureEnd(pc) == IF pc \in {"r_in", "r_out"} THEN "r_out" ELSE "b_out"

LowerContexts == {"foo", "bar", "key_listener", "dispatcher1", "dispatcher3"}

LedsLow == ~led_red /\ ~led_blue

\* emergency_stop has started executing at some point
Started == pcE # "off" \/ greenToggles > 0

\* C1: once the button's falling edge has made the emergency interrupt
\* pending, wherever foo, bar or key_listener was, both shared LEDs are low
\* by the time the second timer tick after the edge arrives.
C1_LedsLowWithinOneTick ==
    (edges > 0 /\ sinceTrig >= 2) => LedsLow

\* the edge arrived inside foo's led_red closure after the toggle (led_red
\* high) and two ticks have passed
C1_Witness ==
    /\ trigPc = << "foo", "r_out" >>
    /\ sinceTrig = 2
    /\ LedsLow

\* C2: from the moment emergency_stop has started, the last step taken is
\* never one of foo, bar, key_listener or their dispatchers, and once the
\* handler has forced both LEDs low they are low in every later state.
C2_NoTaskAfterEmergency ==
    /\ Started => last \in {"emergency_stop", "systick", "tick", "button"}
    /\ (greenToggles > 0 /\ pcE \notin {"blue", "red"}) => LedsLow

\* the handler spins while the bar event foo had scheduled, whose deadline
\* elapsed after the stop, sits in the ready queue with its dispatcher pending
C2_Witness ==
    /\ pcE = "halt"
    /\ rq3 # << >>
    /\ Head(rq3).task = "bar"
    /\ "D3" \in pend
    /\ sinceTrig >= 1

\* C3 (as stated): emergency_stop is never active while foo or bar is
\* between its toggle of led_red and its toggle of led_blue.
C3_Original == pcE = "off" \/ pc3 \notin Mid

\* C3 (amended): between the two toggles of a blink phase no step of
\* key_listener or of a dispatcher is taken, and emergency_stop never starts
\* while a lock closure is running; it can start between the two closures.
C3_PairAtomicBelowEmergency ==
    /\ pc3 \in Mid =>
          last \notin {"key_listener", "dispatcher1", "dispatcher3"}
    /\ pcE # "off" => pc3 \notin InClosure

\* emergency_stop has started between foo's two closures
C3_Witness ==
    /\ pcE # "off"
    /\ task3 = "foo"
    /\ pc3 = "b_lock"
    /\ trigPc = << "foo", "b_lock" >>

\* C4 (as stated): foo / bar never takes a step while the emergency
\* interrupt is pending (the handler preempts at once, also inside a closure).
C4_Original ==
    ("EXTI0" \in pend /\ pcE = "off") => last \notin {"foo", "bar"}

\* C4 (amended): an edge that arrives inside a lock closure is deferred until
\* the closure has returned; the handler then starts before the holder's
\* next step, so the holder is stopped right after the closure.
C4_DeferredUntilRelease ==
    /\ ("EXTI0" \in pend /\ pcE = "off" /\ last \in LowerContexts) =>
          /\ last = task3
          /\ trigPc[2] \in InClosure
          /\ pc3 \in {ClosureEnd(trigPc[2]), AfterClosure(task3, trigPc[2])}
    /\ (pcE # "off" /\ trigPc[2] \in InClosure) =>
          pc3 = AfterClosure(trigPc[1], trigPc[2])

\* the edge arrived before the toggle inside foo's led_red closure; the
\* holder has finished the toggle with the interrupt still pending
C4_Witness ==
    /\ trigPc = << "foo", "r_in" >>
    /\ pc3 = "r_out"
    /\ "EXTI0" \in pend
    /\ last = "foo"

\* C5: whenever the first edge arrived while foo held a shared-LED lock, the
\* halted system has both shared LEDs low, led_green toggled exactly once
\* (high), and the interrupted foo run is still the last blink run started.
C5_MidLockStop ==
    (pcE = "halt" /\ trigPc[1] = "foo" /\ trigPc[2] \in InClosure) =>
        /\ LedsLow
        /\ greenToggles = 1
        /\ led_green
        /\ task3 = "foo"
        /\ pc3 = AfterClosure("foo", trigPc[2])
        /\ Len(log) = done.foo + done.bar + 1
        /\ last \in {"emergency_stop", "systick", "tick", "button"}

\* the edge arrived inside foo's led_blue closure, the button bounced once
\* more, and the handler spins
C5_Witness ==
    /\ pcE = "halt"
    /\ trigPc = << "foo", "b_in" >>
    /\ edges = 2
    /\ sinceTrig = 2

\* foo has incremented the counter and not yet returned
InFlight == task3 = "foo" /\ pc3 = "spawn"

\* no blink phase is in progress
BetweenPhases == pc3 \in {"off", "disp"}

PhasesDone == done.foo + done.bar

\* C6 (as stated): the counter equals the number of completed cycles (foo
\* then bar) in every state.
C6_Original == counter = done.bar

\* C6 (amended): with the button never pressed, the counter starts at 0 and
\* equals the number of increments foo has made, one per cycle: it is N when
\* the N-th cycle has completed, and N + 1 from foo's increment in cycle
\* N + 1 until that cycle's bar completes; nothing else changes it.
C6_CounterCountsCycles ==
    /\ counter = done.foo + (IF InFlight THEN 1 ELSE 0)
    /\ done.bar <= done.foo
    /\ done.foo <= done.bar + 1
    /\ (done.foo = done.bar /\ ~InFlight) => counter = done.bar

\* two full cycles have completed
C6_Witness ==
    /\ done.bar = 2
    /\ counter = 2
    /\ pc3 = "off"

\* C7 (as stated): the first foo starts at tick 100, the first bar at tick
\* 200 and the second foo at tick 300.
C7_Original ==
    /\ Len(log) >= 1 => (log[1].task = "foo" /\ log[1].at = Delay)
    /\ Len(log) >= 2 => (log[2].task = "bar" /\ log[2].at = 2 * Delay)
    /\ Len(log) >= 3 => (log[3].task = "foo" /\ log[3].at = 3 * Delay)

\* C7 (amended): with the button never pressed, the first foo starts at tick
\* 0 and makes the counter 1, the first bar starts at tick 100 (1 s) and the
\* second foo at tick 200 (2 s), making the counter 2.
C7_ScheduleFromStart ==
    /\ Len(log) >= 1 => (log[1].task = "foo" /\ log[1].at = 0)
    /\ (Len(log) = 1 /\ done.foo = 1) => counter = 1
    /\ Len(log) >= 2 =>
          (log[2].task = "bar" /\ log[2].at = Delay /\ counter >= 1)
    /\ Len(log) >= 3 => (log[3].task = "foo" /\ log[3].at = 2 * Delay)
    /\ (Len(log) = 3 /\ done.foo = 2) => counter = 2

\* the second foo has run
C7_Witness ==
    /\ Len(log) = 3
    /\ done.foo = 2
    /\ counter = 2
    /\ cnt = 2 * Delay

\* C8 (as stated): between phases both LEDs are at the same level, off at
\* the start and flipped by every phase.
C8_Original ==
    BetweenPhases =>
        (led_red = led_blue /\ led_red = (PhasesDone % 2 = 1))

\* C8 (amended): between phases the LEDs are at opposite levels: (led_red,
\* led_blue) is (off, on) at the start and after every even number of
\* phases, (on, off) after every odd number.
C8_OppositeLevels ==
    BetweenPhases =>
        (led_red = (PhasesDone % 2 = 1) /\ led_blue = (PhasesDone % 2 = 0))

\* three phases have completed
C8_Witness ==
    /\ BetweenPhases
    /\ PhasesDone = 3
    /\ led_red
    /\ ~led_blue

\* C9: every row sample reports a key exactly when the row read high, and
\* the column of the report is the only column driven high at the sample.
C9_ReportIffHigh ==
    lastSample # NoSample =>
        /\ lastSample.reported <=> lastSample.level
        /\ lastSample.high = {lastSample.i}

\* bar preempted the scan of column 2 before the sample of row 1, and that
\* sample then reported the key
C9_Witness ==
    /\ lastSample.reported
    /\ lastSample.i = 2
    /\ lastSample.j = 1
    /\ preemptK = [s |-> "sample", i |-> 2, j |-> 1]
    /\ done.bar = 1

\* C10: no spawn_after call fails: the slot of the task to spawn is free
\* whenever foo or bar reaches its call, no task panics, and the timer queue
\* and the ready queue together hold at most one blink event.
C10_SpawnNeverFails ==
    /\ pc3 # "panic"
    /\ InFlight => "bar" \in fq
    /\ (task3 = "bar" /\ pc3 = "spawn") => "foo" \in fq
    /\ Cardinality(tq) + Len(rq3) <= 1
    /\ \A e \in tq : e.task \notin fq

\* bar's call has put the next foo in the timer queue
C10_Witness ==
    /\ done.bar = 1
    /\ tq = {[instant |-> 2 * Delay, task |-> "foo", arg |-> 0]}
    /\ fq = {"bar", "key_listener"}

\* C11: with no emergency trigger the priority-3 executions occur in the
\* order foo, bar, foo, bar, ... starting with foo: the k-th execution is
\* foo when k is odd and bar when k is even, and a phase has returned
\* before the next one is dispatched.
C11_StrictAlternation ==
    /\ \A k \in 1 .. Len(log) :
          log[k].task = IF k % 2 = 1 THEN "foo" ELSE "bar"
    /\ done.foo - done.bar \in {0, 1}
    /\ Len(log) - PhasesDone \in {0, 1}

\* foo, bar, foo, bar have run and the second bar has returned
C11_Witness ==
    /\ Len(log) = 4
    /\ done.bar = 2
    /\ done.foo = 2

\* the blink events whose deadline lies within the modelled three seconds
RunsWithinHorizon == MaxTickQuiet \div Delay + 1

\* C12: with a processor that keeps executing and a tick source that keeps
\* counting, and no emergency trigger, key_listener's endless scan does not
\* starve the blink pair: the n-th blink event (spawned by init for n = 1,
\* scheduled by the (n-1)-th spawn_after call otherwise) is eventually
\* dispatched, not before its deadline, for every event whose deadline lies
\* within the horizon, and foo and bar each complete each of their runs
\* within the horizon.
C12_BlinkNotStarved ==
    /\ \A n \in 1 .. RunsWithinHorizon :
          (Len(spawns) >= n - 1)
            ~> (/\ Len(log) >= n
                /\ n > 1 => log[n].at >= spawns[n - 1] + Delay)
    /\ <>(done.foo >= RunsWithinHorizon \div 2
          /\ done.bar >= RunsWithinHorizon \div 2)

\* the fourth blink event, a bar, has been dispatched three seconds after
\* the start by preempting key_listener in the middle of a column scan
C12_Witness ==
    /\ Len(log) = RunsWithinHorizon
    /\ task3 = "bar"
    /\ pc3 = "r_lock"
    /\ preemptK.s = "sample"
    /\ log[RunsWithinHorizon].at >= (RunsWithinHorizon - 1) * Delay

Blink == {"foo", "bar", "dispatcher3"}

Scan == {"key_listener", "dispatcher1"}

\* C13 (as stated): no step of a task is taken while a task of strictly
\* higher priority is ready (its interrupt pending) or running, and a blink
\* phase is dispatched only when every earlier phase has returned.
C13_Original ==
    /\ last \in Blink => (pcE = "off" /\ "EXTI0" \notin pend)
    /\ last \in Scan =>
          (pcE = "off" /\ pc3 = "off" /\ pend \cap {"EXTI0", "D3"} = {})
    /\ Len(log) = PhasesDone + (IF BetweenPhases THEN 0 ELSE 1)

\* C13 (amended): no step of a task is taken while a task of strictly higher
\* priority is running; key_listener takes no step while anything of higher
\* priority is ready; foo / bar take a step with emergency_stop ready only
\* to finish the lock closure they are in (the toggle and the return of the
\* closure), the handler starting before their next step; and a blink phase
\* is dispatched only when every earlier phase has returned.
C13_PriorityDiscipline ==
    /\ last \in Blink => pcE = "off"
    /\ (last \in Blink /\ "EXTI0" \in pend) =>
          /\ last = task3
          /\ \/ pc3 \in {"r_out", "b_out", "b_lock"}
             \/ pc3 = (IF task3 = "foo" THEN "inc" ELSE "spawn")
          /\ trigPc[2] \in InClosure
    /\ last \in Scan =>
          /\ pcE = "off"
          /\ pc3 = "off"
          /\ pend \cap {"EXTI0", "D3", "SysTick"} = {}
    /\ Len(log) = PhasesDone + (IF BetweenPhases THEN 0 ELSE 1)

\* bar preempted key_listener in the middle of a column scan, the button was
\* pressed inside bar's led_blue closure, and bar has toggled led_blue with
\* emergency_stop ready
C13_Witness ==
    /\ last = "bar"
    /\ pc3 = "b_out"
    /\ "EXTI0" \in pend
    /\ pcK.s = "sample"
    /\ cols[pcK.i]
    /\ done.foo = 1

\* the number of bar runs among the first k priority-3 executions
BarRuns(k) == Cardinality({i \in 1 .. k : log[i].task = "bar"})

\* C14: with no emergency trigger, the k-th execution of bar receives
\* counter = k, the value foo held right after the increment of the run that
\* scheduled it: the payload of every bar execution equals the number of bar
\* executions up to and including it, the payload travels unchanged through
\* the timer queue and the ready queue, and the running bar holds it while
\* the counter still has that value.
C14_PayloadIsRunNumber ==
    /\ \A k \in 1 .. Len(log) :
          log[k].task = "bar" => log[k].arg = BarRuns(k)
    /\ \A e \in tq : e.task = "bar" => e.arg = counter /\ e.arg = done.foo
    /\ \A i \in 1 .. Len(rq3) :
          rq3[i].task = "bar" => rq3[i].arg = counter
    /\ (task3 = "bar" /\ ~BetweenPhases) => (arg3 = counter /\ arg3 > 0)

\* the second bar runs with payload 2, two seconds after the payload 1 of
\* the first
C14_Witness ==
    /\ Len(log) = 4
    /\ log[2].arg = 1
    /\ log[4].arg = 2
    /\ task3 = "bar"
    /\ arg3 = 2
    /\ pc3 = "b_in"

\* C15: with no emergency trigger, the n-th priority-3 execution (n > 1)
\* starts at least Delay ticks after the spawn_after call that scheduled it,
\* which is the (n-1)-th call; the call returns at once (the caller's run
\* completes in the call's own step, at the instant of the call), and the
\* caller has finished before the execution it scheduled starts.
C15_NotBeforeDeadline ==
    /\ \A n \in 2 .. Len(log) :
          /\ Len(spawns) >= n - 1
          /\ log[n].at >= spawns[n - 1] + Delay
          /\ spawns[n - 1] >= log[n - 1].at
    /\ Len(spawns) = PhasesDone
    /\ PhasesDone >= Len(log) - 1
    /\ \A e \in tq : e.instant = spawns[Len(spawns)] + Delay
    /\ ~BetweenPhases => (tq = {} /\ rq3 = << >>)

\* the second foo has started two seconds after the start, one second after
\* bar's call, and the key scan it preempted was under way
C15_Witness ==
    /\ Len(log) = 3
    /\ spawns = << 0, Delay >>
    /\ log[3].at = 2 * Delay
    /\ pc3 = "r_lock"
    /\ preemptK.s # "off"

\* the keypad column outputs that are high
HighCols == {c \in DOMAIN cols : cols[c]}

\* C16: at most one keypad column output is high in every reachable state,
\* halted or not: no column is high until key_listener has driven its first
\* column, the only high column is the one being scanned, it is low again
\* when the scan is about to drive the next one, and the columns are the
\* same after a step of foo, bar, their dispatcher, the timer handler or
\* emergency_stop as when those preempted the scan.
C16_OneColumnHigh ==
    /\ Cardinality(HighCols) <= 1
    /\ HighCols = IF pcK.s \in {"sample", "set_low"} THEN {pcK.i} ELSE {}
    /\ pcK.s \in {"off", "disp"} => pcK = KOff \/ pcK.i = 0
    /\ (preemptK.s \in {"sample", "set_low"} /\ pc3 # "off") =>
          (pcK = preemptK /\ HighCols = {preemptK.i})
    /\ (preemptK.s = "set_high" /\ pc3 # "off") =>
          (pcK = preemptK /\ HighCols = {})

\* bar runs having preempted the scan of the last column, which stays high
C16_Witness ==
    /\ pcK.s = "sample"
    /\ pcK.i = NumCols - 1
    /\ cols[NumCols - 1]
    /\ task3 = "bar"
    /\ pc3 = "r_in"
    /\ preemptK = pcK

\* the first statement of emergency_stop has been executed
BodyStarted == pcE \in {"blue", "red", "clear", "halt"}

\* C17: the body of emergency_stop executes at most once: led_green is
\* toggled at most once and is high exactly when the handler's first
\* statement has been executed; the pending bit of the EXTI line is still
\* set until the handler's clear, which comes only with both shared LEDs
\* low; the handler, once entered, stays active for good, and an edge that
\* pends the interrupt again while it spins leaves it pending.
C17_BodyAtMostOnce ==
    /\ greenToggles <= 1
    /\ led_green <=> greenToggles = 1
    /\ led_green <=> BodyStarted
    /\ pcE \in {"green", "blue", "red", "clear"} => extiPR
    /\ (edges > 0 /\ ~extiPR) => (pcE = "halt" /\ LedsLow)
    /\ pcE \in {"clear", "halt"} => LedsLow
    /\ ("EXTI0" \in pend /\ pcE = "off") => (extiPR /\ greenToggles = 0)
    /\ edges = 0 => pcE = "off"

\* the button bounced after the handler had cleared the pending bit: the
\* interrupt is pending again and the handler spins, led_green high
C17_Witness ==
    /\ pcE = "halt"
    /\ "EXTI0" \in pend
    /\ extiPR
    /\ edges = 2
    /\ greenToggles = 1
    /\ led_green
    /\ last = "emergency_stop"

\* C18: in every step, the counter changes only in a step of foo, a keypad
\* column output changes only in a step of key_listener, led_green changes
\* only in a step of emergency_stop, and a step of key_listener leaves
\* led_red, led_blue, the counter and the timer queue as they were.
C18_OwnedStateFrame ==
    [][/\ counter' # counter => last' = "foo"
       /\ cols' # cols => last' = "key_listener"
       /\ led_green' # led_green => last' = "emergency_stop"
       /\ last' = "key_listener" =>
             UNCHANGED << led_red, led_blue, counter, tq >>]_vars

\* each owner has changed its state: foo the counter, bar has run without
\* changing it, key_listener holds a column high and emergency_stop has
\* lit led_green
C18_Witness ==
    /\ counter = 1
    /\ done.bar = 1
    /\ \E c \in DOMAIN cols : cols[c]
    /\ led_green
    /\ pcE = "halt"

\* emergency_stop has forced a shared LED low
Forced == pcE \in {"red", "clear", "halt"}

\* C19: until emergency_stop forces them low, led_red and led_blue are at
\* opposite levels whenever neither foo nor bar is running, red low and
\* blue high before the first phase; both are low at the same time only
\* when emergency_stop has forced them or inside a phase of bar between
\* its two toggles, and both are high only inside a phase of foo between
\* its two toggles.
C19_BothLowOnlyForced ==
    /\ (~Forced /\ BetweenPhases) => led_red # led_blue
    /\ (~Forced /\ Len(log) = 0) => (~led_red /\ led_blue)
    /\ LedsLow => (Forced \/ (task3 = "bar" /\ pc3 \in Mid))
    /\ (led_red /\ led_blue) => (task3 = "foo" /\ pc3 \in Mid)

\* no button edge yet: bar has toggled led_red low and has not yet toggled
\* led_blue, so both LEDs are low inside the phase
C19_Witness ==
    /\ LedsLow
    /\ edges = 0
    /\ pcE = "off"
    /\ task3 = "bar"
    /\ pc3 = "b_lock"

====
